---- MODULE Spec2Model ----
(***************************************************************************)
(* Model of the FAQ helpdesk matcher: the record normaliser and category   *)
(* classifier of encoder.py and the role-weighted scorer and match         *)
(* decision of benchmark/run.py (FAQMatcher).                              *)
(*                                                                         *)
(* Text is a sequence of one-character strings, so that lower(), the       *)
(* substring test `s in lower` and the regular-expression substitutions    *)
(* are computed character by character as the code computes them.          *)
(* Numbers: a cosine similarity is an integer number of 1/SimScale units,  *)
(* a role weight an integer number of tenths, a score the exact rational   *)
(* [num, den], a threshold and a rounded score integers in 1/10000 units.  *)
(***************************************************************************)
EXTENDS Integers, Sequences, FiniteSets, TLC

(***************************************************************************)
(* Bounds of the model.                                                    *)
(***************************************************************************)
\* longest text, in vocabulary words, given to the normaliser
MaxWords == 2
\* largest number of FAQ entries loaded into the corpus
MaxCorpus == 4

\* longest text given to _preprocess character by character
MaxChars == 4

\* most characters added after the fixed part of a long question
MaxTail == 3

(***************************************************************************)
(* Characters and strings.                                                 *)
(***************************************************************************)
LowerLetters ==
    <<"a","b","c","d","e","f","g","h","i","j","k","l","m",
      "n","o","p","q","r","s","t","u","v","w","x","y","z">>

UpperLetters ==
    <<"A","B","C","D","E","F","G","H","I","J","K","L","M",
      "N","O","P","Q","R","S","T","U","V","W","X","Y","Z">>

Digits == <<"0","1","2","3","4","5","6","7","8","9">>

Range(f) == { f[i] : i \in DOMAIN f }

Min(a, b) == IF a <= b THEN a ELSE b

\* str.lower() on one character
LowerChar(c) ==
    IF \E i \in 1..26 : UpperLetters[i] = c
    THEN LowerLetters[CHOOSE i \in 1..26 : UpperLetters[i] = c]
    ELSE c

\* str.lower()
RECURSIVE Lower(_)
Lower(text) ==
    IF text = <<>> THEN <<>> ELSE <<LowerChar(Head(text))>> \o Lower(Tail(text))

\* the Python test `s in text` on strings: s occurs as a contiguous substring
IsSubstring(s, text) ==
    \E i \in 1..(Len(text) - Len(s) + 1) : SubSeq(text, i, i + Len(s) - 1) = s

(***************************************************************************)
(* Category inference (encoder.py).                                        *)
(***************************************************************************)
\* insertion order of the _CATEGORY_SIGNALS dict, the order its items() loop runs in
CategoryOrder ==
    <<"account", "billing", "product", "shipping", "returns", "technical", "general">>

Categories == Range(CategoryOrder)

_CATEGORY_SIGNALS ==
[
    account   |-> <<
        <<"a","c","c","o","u","n","t">>,
        <<"l","o","g","i","n">>,
        <<"p","a","s","s","w","o","r","d">>,
        <<"s","i","g","n"," ","i","n">>,
        <<"r","e","g","i","s","t","e","r">>,
        <<"p","r","o","f","i","l","e">>,
        <<"v","e","r","i","f","y">>,
        <<"2","f","a">>,
        <<"m","f","a">>,
        <<"u","s","e","r","n","a","m","e">>,
        <<"e","m","a","i","l"," ","a","d","d","r","e","s","s">>,
        <<"t","w","o","-","f","a","c","t","o","r">> >>,
    billing   |-> <<
        <<"b","i","l","l","i","n","g">>,
        <<"i","n","v","o","i","c","e">>,
        <<"c","h","a","r","g","e">>,
        <<"p","a","y","m","e","n","t">>,
        <<"s","u","b","s","c","r","i","p","t","i","o","n">>,
        <<"p","l","a","n">>,
        <<"u","p","g","r","a","d","e">>,
        <<"d","o","w","n","g","r","a","d","e">>,
        <<"r","e","f","u","n","d">>,
        <<"c","r","e","d","i","t"," ","c","a","r","d">>,
        <<"r","e","c","e","i","p","t">>,
        <<"p","r","i","c","e">>,
        <<"c","o","s","t">>,
        <<"f","e","e">>,
        <<"c","h","a","r","g","e","d">>,
        <<"b","i","l","l","e","d">>,
        <<"m","o","n","e","y"," ","b","a","c","k">> >>,
    product   |-> <<
        <<"f","e","a","t","u","r","e">>,
        <<"s","e","t","u","p">>,
        <<"c","o","n","f","i","g","u","r","e">>,
        <<"i","n","t","e","g","r","a","t","i","o","n">>,
        <<"a","p","i">>,
        <<"d","a","s","h","b","o","a","r","d">>,
        <<"s","e","t","t","i","n","g","s">>,
        <<"t","u","t","o","r","i","a","l">>,
        <<"g","e","t"," ","s","t","a","r","t","e","d">>,
        <<"h","o","w"," ","t","o"," ","u","s","e">>,
        <<"i","n","s","t","a","l","l">>,
        <<"c","o","n","n","e","c","t">>,
        <<"e","n","a","b","l","e">>,
        <<"a","v","a","i","l","a","b","l","e">> >>,
    shipping  |-> <<
        <<"s","h","i","p","p","i","n","g">>,
        <<"d","e","l","i","v","e","r","y">>,
        <<"t","r","a","c","k">>,
        <<"t","r","a","c","k","i","n","g">>,
        <<"s","h","i","p">>,
        <<"a","r","r","i","v","e">>,
        <<"p","a","c","k","a","g","e">>,
        <<"c","o","u","r","i","e","r">>,
        <<"t","r","a","n","s","i","t">>,
        <<"e","s","t","i","m","a","t","e","d">>,
        <<"i","n","t","e","r","n","a","t","i","o","n","a","l">>,
        <<"d","e","l","i","v","e","r">>,
        <<"o","r","d","e","r">>,
        <<"p","a","c","k","a","g","e">> >>,
    returns   |-> <<
        <<"r","e","t","u","r","n">>,
        <<"e","x","c","h","a","n","g","e">>,
        <<"w","a","r","r","a","n","t","y">>,
        <<"d","a","m","a","g","e","d">>,
        <<"b","r","o","k","e","n">>,
        <<"w","r","o","n","g"," ","i","t","e","m">>,
        <<"c","a","n","c","e","l"," ","o","r","d","e","r">>,
        <<"r","e","t","u","r","n"," ","p","o","l","i","c","y">>,
        <<"s","e","n","d"," ","b","a","c","k">>,
        <<"s","e","n","d"," ","i","t"," ","b","a","c","k">>,
        <<"w","r","o","n","g">>,
        <<"d","e","f","e","c","t","i","v","e">> >>,
    technical |-> <<
        <<"e","r","r","o","r">>,
        <<"b","u","g">>,
        <<"c","r","a","s","h">>,
        <<"n","o","t"," ","w","o","r","k","i","n","g">>,
        <<"b","r","o","k","e","n">>,
        <<"f","i","x">>,
        <<"i","s","s","u","e">>,
        <<"t","r","o","u","b","l","e","s","h","o","o","t">>,
        <<"d","e","b","u","g">>,
        <<"t","i","m","e","o","u","t">>,
        <<"5","0","0">>,
        <<"4","0","4">>,
        <<"s","l","o","w">>,
        <<"l","o","a","d","i","n","g">>,
        <<"p","r","o","b","l","e","m">>,
        <<"f","a","i","l","s">>,
        <<"f","a","i","l","i","n","g">> >>,
    general   |-> <<
        <<"c","o","n","t","a","c","t">>,
        <<"s","u","p","p","o","r","t">>,
        <<"b","u","s","i","n","e","s","s"," ","h","o","u","r","s">>,
        <<"p","h","o","n","e">>,
        <<"p","r","i","v","a","c","y"," ","p","o","l","i","c","y">>,
        <<"d","a","t","a">>,
        <<"g","d","p","r">>,
        <<"h","o","u","r","s">>,
        <<"t","a","l","k"," ","t","o">>,
        <<"s","p","e","a","k"," ","t","o">>,
        <<"h","u","m","a","n">> >> ]

_DOMAIN_CATEGORY == [ payments |-> "billing", tickets |-> "technical" ]

_ACTION_CATEGORY ==
    [ charge |-> "billing", refund |-> "billing", subscribe |-> "billing",
      cancel |-> "billing", track  |-> "shipping" ]

\* sum(1 for s in signals if s in lower): one per list element that occurs
SignalScore(cat, lower) ==
    LET signals == _CATEGORY_SIGNALS[cat]
    IN  Cardinality({ i \in DOMAIN signals : IsSubstring(signals[i], lower) })

\* the loop over _CATEGORY_SIGNALS.items(), from category number i on
RECURSIVE BestCategory(_, _, _, _)
BestCategory(i, lower, best_cat, best_score) ==
    IF i > Len(CategoryOrder) THEN [cat |-> best_cat, score |-> best_score]
    ELSE LET cat   == CategoryOrder[i]
             score == SignalScore(cat, lower)
         IN  IF score > best_score
             THEN BestCategory(i + 1, lower, cat, score)
             ELSE BestCategory(i + 1, lower, best_cat, best_score)

\* mutant of _infer_category: the action hint is consulted before the domain hint
InferCategoryActionFirst(text, domain, action) ==
    LET best == BestCategory(1, Lower(text), "general", 0)
    IN  IF best.score > 0 THEN best.cat
        ELSE IF action \in DOMAIN _ACTION_CATEGORY THEN _ACTION_CATEGORY[action]
        ELSE IF domain \in DOMAIN _DOMAIN_CATEGORY THEN _DOMAIN_CATEGORY[domain]
        ELSE best.cat

_infer_category(text, domain, action) ==
    LET best == BestCategory(1, Lower(text), "general", 0)
    IN  IF best.score > 0 THEN best.cat
        ELSE IF domain \in DOMAIN _DOMAIN_CATEGORY THEN _DOMAIN_CATEGORY[domain]
        ELSE IF action \in DOMAIN _ACTION_CATEGORY THEN _ACTION_CATEGORY[action]
        ELSE best.cat

(***************************************************************************)
(* Text preprocessing and record construction (encoder.py).                *)
(***************************************************************************)
\* the regular-expression class \w
IsWordChar(c) ==
    c \in Range(LowerLetters) \cup Range(UpperLetters) \cup Range(Digits) \cup {"_"}

\* the regular-expression class \s
IsSpaceChar(c) == c \in {" ", "\t", "\n"}

\* str.strip(chars): drop the leading and trailing characters that are in drop
RECURSIVE LStrip(_, _)
LStrip(text, drop) ==
    IF text # <<>> /\ Head(text) \in drop THEN LStrip(Tail(text), drop) ELSE text

RECURSIVE RStrip(_, _)
RStrip(text, drop) ==
    IF text # <<>> /\ text[Len(text)] \in drop
    THEN RStrip(SubSeq(text, 1, Len(text) - 1), drop)
    ELSE text

Strip(text, drop) == RStrip(LStrip(text, drop), drop)

\* mutant of SubPunctuation: every other character is removed
RECURSIVE SubPunctuationRemoved(_)
SubPunctuationRemoved(text) ==
    IF text = <<>> THEN <<>>
    ELSE (IF IsWordChar(Head(text)) \/ IsSpaceChar(Head(text)) THEN <<Head(text)>> ELSE <<>>)
         \o SubPunctuationRemoved(Tail(text))

\* re.sub(r"[^\w\s]", " ", text): every other character becomes a space
RECURSIVE SubPunctuation(_)
SubPunctuation(text) ==
    IF text = <<>> THEN <<>>
    ELSE <<IF IsWordChar(Head(text)) \/ IsSpaceChar(Head(text)) THEN Head(text) ELSE " ">>
         \o SubPunctuation(Tail(text))

\* re.sub(r"[^\w\s]", " ", text.lower()).strip()
_preprocess(text) == Strip(SubPunctuation(Lower(text)), {" ", "\t", "\n"})

\* re.sub(r"[^a-z0-9]+", "_", text): every maximal run of other characters -> "_"
IsSlugChar(c) == c \in Range(LowerLetters) \cup Range(Digits)

RECURSIVE SubRuns(_, _)
SubRuns(text, inRun) ==
    IF text = <<>> THEN <<>>
    ELSE IF IsSlugChar(Head(text)) THEN <<Head(text)>> \o SubRuns(Tail(text), FALSE)
    ELSE IF inRun THEN SubRuns(Tail(text), TRUE)
    ELSE <<"_">> \o SubRuns(Tail(text), TRUE)

\* length of the slice [:40] of the generated slug
SlugLen == 40

\* mutant of Slug: the question is cut to 40 characters before the runs are
\* collapsed
SlugOfPrefix(question) ==
    Strip(SubRuns(Lower(SubSeq(question, 1, Min(SlugLen, Len(question)))), FALSE), {"_"})

\* re.sub(r"[^a-z0-9]+", "_", question.lower()).strip("_")[:40]
Slug(question) ==
    LET stripped == Strip(SubRuns(Lower(question), FALSE), {"_"})
    IN  SubSeq(stripped, 1, Min(SlugLen, Len(stripped)))

\* " ".join(kw_list)
RECURSIVE Join(_)
Join(words) ==
    IF words = <<>> THEN <<>>
    ELSE IF Len(words) = 1 THEN words[1]
    ELSE words[1] \o <<" ">> \o Join(Tail(words))

\* a raw entry is a record with every key present; a key the JSON line lacks
\* holds the default entry.get() gives it.  keywords is [list |-> words] or
\* [str |-> text]
KwStr(kw) == IF "list" \in DOMAIN kw THEN Join(kw.list) ELSE kw.str

entry_to_record(entry) ==
    LET question    == entry.question
        question_id == IF entry.question_id = <<>>
                       THEN <<"f","a","q","_">> \o Slug(question)
                       ELSE entry.question_id
        category    == IF entry.category = ""
                       THEN _infer_category(question, "", "")
                       ELSE entry.category
    IN  [ concept_text |-> question,
          attributes |-> [ question_id |-> question_id,
                           category    |-> category,
                           question    |-> _preprocess(question),
                           answer      |-> _preprocess(entry.answer),
                           keywords    |-> KwStr(entry.keywords) ],
          metadata   |-> [ answer            |-> entry.answer,
                           category          |-> category,
                           question_id       |-> question_id,
                           original_question |-> question ] ]

\* position of a character in the model's character table, standing for ord()
AllChars == LowerLetters \o UpperLetters \o Digits \o <<" ", "_", "-", "?", ".">>

Ord(c) == CHOOSE i \in 1..Len(AllChars) : AllChars[i] = c

\* range of the digest model below
DigestMod == 65536

\* int(hashlib.md5(query.encode()).hexdigest()[:8], 16): a fixed-width digest
\* of the raw bytes, modelled by a polynomial hash of the characters
RECURSIVE StableId(_, _)
StableId(query, acc) ==
    IF query = <<>> THEN acc
    ELSE StableId(Tail(query), (acc * 31 + Ord(Head(query))) % DigestMod)

\* mutant of encode_query: the name is the digest of the query followed by
\* the extracted keywords
EncodeQueryNameFromKeywords(query, extracted) ==
    LET cleaned  == _preprocess(query)
        category == _infer_category(cleaned, extracted.domain, extracted.action)
        keywords == IF extracted.keywords # <<>> THEN extracted.keywords ELSE cleaned
    IN  [ name |-> <<"query_", StableId(query \o extracted.keywords, 7)>>,
          attributes |-> [ question_id |-> <<>>,
                           category    |-> category,
                           question    |-> cleaned,
                           answer      |-> <<>>,
                           keywords    |-> keywords ] ]

\* extracted is the extractor's output, every key present ("" / <<>> for a
\* key that is missing or None)
encode_query(query, extracted) ==
    LET cleaned  == _preprocess(query)
        category == _infer_category(cleaned, extracted.domain, extracted.action)
        keywords == IF extracted.keywords # <<>> THEN extracted.keywords ELSE cleaned
    IN  [ name |-> <<"query_", StableId(query, 7)>>,
          attributes |-> [ question_id |-> <<>>,
                           category    |-> category,
                           question    |-> cleaned,
                           answer      |-> <<>>,
                           keywords    |-> keywords ] ]

(***************************************************************************)
(* The encoding engine and the intent extractor (external collaborators).  *)
(* Both are deterministic functions of their input.  A role vector is a    *)
(* unit vector in the plane at a multiple of 60 degrees, so that the       *)
(* cosine of two role vectors is one of 1, 1/2, -1/2, -1.                  *)
(***************************************************************************)
\* number of directions a role vector can take
NumAngles == 6

\* a cosine similarity of 1.0, in model units
SimScale == 2

\* glyphh.core.ops.cosine_similarity on two role vectors, in 1/SimScale units
cosine_similarity(u, v) ==
    <<2, 1, -1, -2, -1, 1>>[((u - v) % NumAngles) + 1]

\* text-to-vector of the engine: a hash of the attribute's characters
RECURSIVE TextVec(_, _)
TextVec(text, acc) ==
    IF text = <<>> THEN acc % NumAngles
    ELSE TextVec(Tail(text), (acc * 5 + Ord(Head(text))) % 997)

\* lexicon lookup of the engine for the category role
CategoryVec(category) ==
    IF category \in Categories
    THEN (CHOOSE i \in DOMAIN CategoryOrder : CategoryOrder[i] = category) % NumAngles
    ELSE 0

\* Encoder(ENCODER_CONFIG).encode(concept): the layers, segments and roles of
\* ENCODER_CONFIG, and an internal bookkeeping layer of the engine
Encode(concept) ==
    LET a == concept.attributes
    IN  << [ name |-> <<"_","k","e","y">>,
             segments |-> << [ name  |-> <<"k","e","y">>,
                               roles |-> [ question |-> TextVec(a.question_id, 3) ] ] >> ],
           [ name |-> <<"s","e","m","a","n","t","i","c">>,
             segments |-> << [ name  |-> <<"i","d","e","n","t","i","t","y">>,
                               roles |-> [ question_id |-> TextVec(a.question_id, 0),
                                           category    |-> CategoryVec(a.category) ] ],
                             [ name  |-> <<"c","o","n","t","e","n","t">>,
                               roles |-> [ question |-> TextVec(a.question, 0),
                                           answer   |-> TextVec(a.answer, 0) ] ] >> ],
           [ name |-> <<"c","o","n","t","e","x","t">>,
             segments |-> << [ name  |-> <<"t","a","g","s">>,
                               roles |-> [ keywords |-> TextVec(a.keywords, 0) ] ] >> ] >>

\* get_extractor().extract(cleaned): no domain, no action, no keywords
Extract(cleaned) == [ domain |-> "", action |-> "", keywords |-> <<>> ]

(***************************************************************************)
(* FAQMatcher (benchmark/run.py).                                          *)
(***************************************************************************)
\* DEFAULT_THRESHOLD = 0.40, in 1/10000 units
DEFAULT_THRESHOLD == 4000

\* one unit of a threshold or of a rounded score is 1/RoundScale
RoundScale == 10000

\* the items of ROLE_WEIGHTS in insertion order, weights in tenths
ROLE_WEIGHTS ==
    << [role |-> "question", w |-> 10],
       [role |-> "category", w |-> 6],
       [role |-> "keywords", w |-> 8],
       [role |-> "answer",   w |-> 4] >>

None == <<>>

Some(x) == <<x>>

\* str.startswith("_")
StartsWithUnderscore(name) == Len(name) > 0 /\ name[1] = "_"

\* dict.update(): the keys of more overwrite those of roles
Update(roles, more) ==
    [ r \in DOMAIN roles \cup DOMAIN more |->
        IF r \in DOMAIN more THEN more[r] ELSE roles[r] ]

\* for seg in layer.segments.values(): roles.update(seg.roles)
RECURSIVE FlattenSegments(_, _)
FlattenSegments(segments, roles) ==
    IF segments = <<>> THEN roles
    ELSE FlattenSegments(Tail(segments), Update(roles, Head(segments).roles))

\* mutant of FlattenLayers: no layer is skipped
RECURSIVE FlattenEveryLayer(_, _)
FlattenEveryLayer(layers, roles) ==
    IF layers = <<>> THEN roles
    ELSE FlattenEveryLayer(Tail(layers), FlattenSegments(Head(layers).segments, roles))

\* for layer in glyph.layers.values(): skip internal layers, merge the rest
RECURSIVE FlattenLayers(_, _)
FlattenLayers(layers, roles) ==
    IF layers = <<>> THEN roles
    ELSE IF StartsWithUnderscore(Head(layers).name)
         THEN FlattenLayers(Tail(layers), roles)
         ELSE FlattenLayers(Tail(layers), FlattenSegments(Head(layers).segments, roles))

Flatten(glyph) == FlattenLayers(glyph, <<>>)

\* mutant of WeightedLoop: a role missing from a bundle still adds its weight
\* to the weight total
RECURSIVE WeightedLoopCountsMissing(_, _, _, _, _)
WeightedLoopCountsMissing(i, q_roles, e_roles, weighted_sum, weight_total) ==
    IF i > Len(ROLE_WEIGHTS) THEN [ws |-> weighted_sum, wt |-> weight_total]
    ELSE LET rname == ROLE_WEIGHTS[i].role
             w     == ROLE_WEIGHTS[i].w
         IN  IF rname \in DOMAIN q_roles /\ rname \in DOMAIN e_roles
             THEN WeightedLoopCountsMissing(i + 1, q_roles, e_roles,
                               weighted_sum + cosine_similarity(q_roles[rname], e_roles[rname]) * w,
                               weight_total + w)
             ELSE WeightedLoopCountsMissing(i + 1, q_roles, e_roles,
                               weighted_sum, weight_total + w)

\* the loop over ROLE_WEIGHTS.items(): [ws, wt] after the items from i on
RECURSIVE WeightedLoop(_, _, _, _, _)
WeightedLoop(i, q_roles, e_roles, weighted_sum, weight_total) ==
    IF i > Len(ROLE_WEIGHTS) THEN [ws |-> weighted_sum, wt |-> weight_total]
    ELSE LET rname == ROLE_WEIGHTS[i].role
             w     == ROLE_WEIGHTS[i].w
         IN  IF rname \in DOMAIN q_roles /\ rname \in DOMAIN e_roles
             THEN WeightedLoop(i + 1, q_roles, e_roles,
                               weighted_sum + cosine_similarity(q_roles[rname], e_roles[rname]) * w,
                               weight_total + w)
             ELSE WeightedLoop(i + 1, q_roles, e_roles, weighted_sum, weight_total)

\* mutant of Score: the weighted sum is not divided by the weight total
ScoreNotNormalised(q_roles, e_roles) ==
    LET t == WeightedLoop(1, q_roles, e_roles, 0, 0)
    IN  IF t.wt > 0 THEN [num |-> t.ws, den |-> 10 * SimScale]
        ELSE [num |-> 0, den |-> 1]

\* score = weighted_sum / weight_total if weight_total > 0 else 0.0
Score(q_roles, e_roles) ==
    LET t == WeightedLoop(1, q_roles, e_roles, 0, 0)
    IN  IF t.wt > 0 THEN [num |-> t.ws, den |-> t.wt * SimScale]
        ELSE [num |-> 0, den |-> 1]

\* comparisons of exact scores (denominators are positive)
ScoreGeq(a, b) == a.num * b.den >= b.num * a.den

ScoreGt(a, b) == a.num * b.den > b.num * a.den

\* mutant of ScoreGeqThreshold: the comparison is reversed
ScoreLeqThreshold(s, t) == s.num * RoundScale <= t * s.den

\* top_score >= self.threshold
ScoreGeqThreshold(s, t) == s.num * RoundScale >= t * s.den

\* round(s, 4): nearest 1/10000, a tie to the even one
Round4(s) ==
    LET n == s.num * RoundScale
        q == n \div s.den
        r == n - q * s.den
    IN  IF 2 * r < s.den THEN q
        ELSE IF 2 * r > s.den THEN q + 1
        ELSE IF q % 2 = 0 THEN q ELSE q + 1

\* the scoring loop over self.faq_glyphs
ScoreAll(q_roles, faq_glyphs) ==
    [ i \in 1..Len(faq_glyphs) |->
        [ score |-> Score(q_roles, Flatten(faq_glyphs[i].glyph)),
          meta  |-> faq_glyphs[i].meta ] ]

\* list.sort(key=score, reverse=True) is stable: an element goes after every
\* element whose score is greater than or equal to its own
\* mutant of InsertSorted: an element goes before the elements of equal score
RECURSIVE InsertSortedUnstable(_, _)
InsertSortedUnstable(sorted, x) ==
    IF sorted = <<>> THEN <<x>>
    ELSE IF ScoreGt(Head(sorted).score, x.score)
         THEN <<Head(sorted)>> \o InsertSortedUnstable(Tail(sorted), x)
         ELSE <<x>> \o sorted

RECURSIVE InsertSorted(_, _)
InsertSorted(sorted, x) ==
    IF sorted = <<>> THEN <<x>>
    ELSE IF ScoreGeq(Head(sorted).score, x.score)
         THEN <<Head(sorted)>> \o InsertSorted(Tail(sorted), x)
         ELSE <<x>> \o sorted

RECURSIVE SortScores(_, _)
SortScores(scores, sorted) ==
    IF scores = <<>> THEN sorted
    ELSE SortScores(Tail(scores), InsertSorted(sorted, Head(scores)))

\* top_3 = [{question_id, score: round(s, 4)} for s, m in scores[:3]]
Top3(scores) ==
    [ i \in 1..Min(3, Len(scores)) |->
        [ question_id |-> scores[i].meta.question_id,
          score       |-> Round4(scores[i].score) ] ]

\* mutant of Decide: the threshold test does not look at top_meta
DecideNoMetaTest(scores, thr) ==
    LET top_score == IF scores # <<>> THEN scores[1].score ELSE [num |-> 0, den |-> 1]
        top_meta  == IF scores # <<>> THEN scores[1].meta
                     ELSE [question_id |-> <<>>, category |-> "", answer |-> <<>>]
    IN  IF ScoreGeqThreshold(top_score, thr)
        THEN [ question_id |-> Some(top_meta.question_id),
               category    |-> Some(top_meta.category),
               answer      |-> Some(top_meta.answer),
               confidence  |-> Round4(top_score),
               top_3       |-> Top3(scores) ]
        ELSE [ question_id |-> None, category |-> None, answer |-> None,
               confidence  |-> Round4(top_score),
               top_3       |-> Top3(scores) ]

\* mutant of Decide: an abstain reports confidence 0.0
DecideZeroOnAbstain(scores, thr) ==
    LET top_score == IF scores # <<>> THEN scores[1].score ELSE [num |-> 0, den |-> 1]
    IN  IF ScoreGeqThreshold(top_score, thr) /\ scores # <<>>
        THEN [ question_id |-> Some(scores[1].meta.question_id),
               category    |-> Some(scores[1].meta.category),
               answer      |-> Some(scores[1].meta.answer),
               confidence  |-> Round4(top_score),
               top_3       |-> Top3(scores) ]
        ELSE [ question_id |-> None, category |-> None, answer |-> None,
               confidence  |-> 0,
               top_3       |-> Top3(scores) ]

\* the part of match() after the sort: threshold test and result record
Decide(scores, thr) ==
    LET top_score == IF scores # <<>> THEN scores[1].score ELSE [num |-> 0, den |-> 1]
    IN  IF ScoreGeqThreshold(top_score, thr) /\ scores # <<>>
        THEN [ question_id |-> Some(scores[1].meta.question_id),
               category    |-> Some(scores[1].meta.category),
               answer      |-> Some(scores[1].meta.answer),
               confidence  |-> Round4(top_score),
               top_3       |-> Top3(scores) ]
        ELSE [ question_id |-> None,
               category    |-> None,
               answer      |-> None,
               confidence  |-> Round4(top_score),
               top_3       |-> Top3(scores) ]

\* the first lines of match(): encode_query, Encoder.encode, and the
\* flattening of the query glyph's roles
QueryRoles(query) ==
    LET record  == encode_query(query, Extract(_preprocess(query)))
        q_glyph == Encode([name |-> record.name, attributes |-> record.attributes])
    IN  Flatten(q_glyph)

\* one iteration of the loop of _load_faq: the (glyph, metadata) pair of an entry
FaqGlyph(entry) ==
    LET record == entry_to_record(entry)
        glyph  == Encode([name |-> record.attributes.question_id,
                          attributes |-> record.attributes])
    IN  [glyph |-> glyph, meta |-> record.metadata]

(***************************************************************************)
(* Inputs.                                                                 *)
(***************************************************************************)
W_package == <<"p","a","c","k","a","g","e">>

W_debug == <<"d","e","b","u","g">>

W_Refund == <<"R","e","f","u","n","d">>

W_return == <<"r","e","t","u","r","n">>

W_xyzzy == <<"x","y","z","z","y">>

W_two_factor == <<"t","w","o","-","f","a","c","t","o","r">>

W_ok == <<"O","k",".">>

W_q1 == <<"q","1">>

Vocab == {W_package, W_debug, W_Refund, W_return, W_xyzzy, W_two_factor}

\* the texts of at most n vocabulary words, joined by single spaces
Texts(n) == { Join(ws) : ws \in UNION { [1..k -> Vocab] : k \in 0..n } }

\* texts given to _preprocess: a capital, a small letter, a digit, the
\* underscore, a punctuation mark and two kinds of whitespace
PreprocessChars == {"A", "b", "1", "_", "-", " ", "\t"}

PreprocessTexts == UNION { [1..k -> PreprocessChars] : k \in 0..MaxChars }

\* questions about as long as the slice of the generated id: a lead, a fixed
\* part of 37 characters and a tail of at most MaxTail characters
LongBase ==
    <<"h","o","w"," ","d","o"," ","i"," ","r","e","s","e","t"," ","m","y"," ",
      "p","a","s","s","w","o","r","d"," ","o","n"," ","t","h","e"," ","w","e","b">>

LongLeads == { <<>>, <<" ">>, <<"A", "-", "-">> }

LongTails == UNION { [1..k -> {"z", "-", " "}] : k \in 0..MaxTail }

LongEntries ==
    { [ question |-> lead \o LongBase \o tail, question_id |-> id,
        category |-> "account", answer |-> W_ok, keywords |-> [list |-> <<>>] ] :
        lead \in LongLeads, tail \in LongTails, id \in {<<>>, W_q1} }

\* outputs of the intent extractor
Domains == {"", "payments", "tickets", "orders"}

Actions == {"", "refund", "track", "search"}

ExtractorOutputs ==
    [ domain : Domains, action : Actions, keywords : {<<>>, W_package} ]

\* raw FAQ entries given to entry_to_record
RawEntries ==
    [ question    : Texts(MaxWords),
      question_id : {<<>>, W_q1},
      category    : {"", "returns", "misc"},
      answer      : {<<>>, W_ok},
      keywords    : {[list |-> <<W_package, W_debug>>], [str |-> W_return]} ]

\* the lines of the FAQ data file the matcher is loaded from
FaqEntries ==
    { [ question |-> Join(<<W_Refund, W_package>>), question_id |-> W_q1,
        category |-> "shipping", answer |-> W_ok, keywords |-> [list |-> <<W_Refund>>] ],
      [ question |-> Join(<<W_Refund, W_package>>), question_id |-> <<>>,
        category |-> "", answer |-> W_ok, keywords |-> [list |-> <<W_Refund>>] ],
      [ question |-> W_xyzzy, question_id |-> W_q1,
        category |-> "misc", answer |-> W_two_factor, keywords |-> [str |-> W_xyzzy] ] }

\* a line is blank, is not valid JSON, or holds an entry
FaqLines ==
    { [kind |-> "blank"], [kind |-> "bad"] }
        \cup { [kind |-> "entry", entry |-> e] : e \in FaqEntries }

FaqFiles == UNION { [1..k -> FaqLines] : k \in 0..MaxCorpus }

\* the --threshold values, in 1/10000 units
Thresholds == {-7000, 0, 1429, DEFAULT_THRESHOLD}

\* the queries given to match()
Queries == { W_package, Join(<<W_Refund, W_package>>), W_xyzzy }

\* the ranked list match() builds for a query: score every entry, then sort
Ranked(q, glyphs) == SortScores(ScoreAll(QueryRoles(q), glyphs), <<>>)

\* FAQMatcher._load_faq on the lines of the data file: a blank line is
\* skipped, json.loads raises on a line that is not valid JSON and nothing
\* catches it, every other line appends one (glyph, metadata) pair
RECURSIVE LoadFaq(_, _)
LoadFaq(lines, glyphs) ==
    IF lines = <<>> THEN [raised |-> FALSE, faq_glyphs |-> glyphs]
    ELSE IF Head(lines).kind = "blank" THEN LoadFaq(Tail(lines), glyphs)
    ELSE IF Head(lines).kind = "bad" THEN [raised |-> TRUE, faq_glyphs |-> glyphs]
    ELSE LoadFaq(Tail(lines), Append(glyphs, FaqGlyph(Head(lines).entry)))

\* build.load_all_jsonl on the lines of the data file: a blank line is
\* skipped, a line that is not valid JSON is skipped with a warning
RECURSIVE load_all_jsonl(_, _)
load_all_jsonl(lines, entries) ==
    IF lines = <<>> THEN entries
    ELSE IF Head(lines).kind = "entry"
         THEN load_all_jsonl(Tail(lines), Append(entries, Head(lines).entry))
         ELSE load_all_jsonl(Tail(lines), entries)

\* records = [entry_to_record(e) for e in entries]
RECURSIVE ToRecords(_)
ToRecords(entries) ==
    IF entries = <<>> THEN <<>>
    ELSE <<entry_to_record(Head(entries))>> \o ToRecords(Tail(entries))

\* a well-formed entry, and an entry whose JSON object has no question key
\* (entry.get gives the defaults)
E_wellformed ==
    [ question |-> W_xyzzy, question_id |-> W_q1, category |-> "general",
      answer |-> W_ok, keywords |-> [list |-> <<W_xyzzy>>] ]

E_noquestion ==
    [ question |-> <<>>, question_id |-> <<>>, category |-> "",
      answer |-> W_ok, keywords |-> [list |-> <<>>] ]

\* the data files given to the two loaders
LoadLines ==
    { [kind |-> "blank"], [kind |-> "bad"],
      [kind |-> "entry", entry |-> E_wellformed],
      [kind |-> "entry", entry |-> E_noquestion] }

LoadFiles == UNION { [1..k -> LoadLines] : k \in 0..MaxCorpus }

(***************************************************************************)
(* State.                                                                  *)
(***************************************************************************)
VARIABLES
    phase,       \* "new" before FAQMatcher(), "ready" after it, "matched" after a
                 \* match(), "crashed" when FAQMatcher() raised
    faq_glyphs,  \* FAQMatcher.faq_glyphs: the (glyph, metadata) pairs in load order
    threshold,   \* FAQMatcher.threshold
    query,       \* the argument of the last match()
    scores,      \* the sorted score list of the last match()
    result,      \* what the last match() returned
    call,        \* the last call of a normaliser function and its arguments
    ret          \* what that call returned

vars == <<phase, faq_glyphs, threshold, query, scores, result, call, ret>>

matcherVars == <<phase, faq_glyphs, threshold, query, scores, result>>

Init ==
    /\ phase = "new"
    /\ faq_glyphs = <<>>
    /\ threshold = DEFAULT_THRESHOLD
    /\ query = <<>>
    /\ scores = <<>>
    /\ result = [ question_id |-> None, category |-> None, answer |-> None,
                  confidence |-> 0, top_3 |-> <<>> ]
    /\ call = [op |-> "none"]
    /\ ret = "none"

(***************************************************************************)
(* The matcher: construction, then any number of match() calls.            *)
(***************************************************************************)
\* FAQMatcher.__init__(threshold): stores the threshold and loads the corpus
FAQMatcherInit(thr, lines) ==
    /\ phase = "new"
    /\ LET loaded == LoadFaq(lines, <<>>)
       IN  IF loaded.raised
           THEN /\ phase' = "crashed"
                /\ UNCHANGED <<threshold, faq_glyphs>>
           ELSE /\ phase' = "ready"
                /\ threshold' = thr
                /\ faq_glyphs' = loaded.faq_glyphs
    /\ UNCHANGED <<query, scores, result, call, ret>>

\* mutant of Match: the scoring loop consumes the corpus entry it reads first
MatchConsuming(q) ==
    /\ phase \in {"ready", "matched"}
    /\ phase' = "matched"
    /\ query' = q
    /\ LET ranked == Ranked(q, faq_glyphs)
       IN  /\ scores' = ranked
           /\ result' = Decide(ranked, threshold)
    /\ faq_glyphs' = IF faq_glyphs = <<>> THEN <<>> ELSE Tail(faq_glyphs)
    /\ UNCHANGED <<threshold, call, ret>>

\* FAQMatcher.match(query)
Match(q) ==
    /\ phase \in {"ready", "matched"}
    /\ phase' = "matched"
    /\ query' = q
    /\ LET ranked == Ranked(q, faq_glyphs)
       IN  /\ scores' = ranked
           /\ result' = Decide(ranked, threshold)
    /\ UNCHANGED <<faq_glyphs, threshold, call, ret>>

Next ==
    \/ \E thr \in Thresholds, lines \in FaqFiles : FAQMatcherInit(thr, lines)
    \/ \E q \in Queries : Match(q)

Spec == Init /\ [][Next]_vars

(***************************************************************************)
(* The normaliser: one call of _infer_category, entry_to_record or         *)
(* encode_query on an arbitrary input.                                     *)
(***************************************************************************)
InferCategory(text, domain, action) ==
    /\ call.op = "none"
    /\ call' = [op |-> "_infer_category", text |-> text, domain |-> domain, action |-> action]
    /\ ret' = _infer_category(text, domain, action)
    /\ UNCHANGED matcherVars

Preprocess(text) ==
    /\ call.op = "none"
    /\ call' = [op |-> "_preprocess", text |-> text]
    /\ ret' = _preprocess(text)
    /\ UNCHANGED matcherVars

EntryToRecord(entry) ==
    /\ call.op = "none"
    /\ call' = [op |-> "entry_to_record", entry |-> entry]
    /\ ret' = entry_to_record(entry)
    /\ UNCHANGED matcherVars

\* mutant of EncodeQuery: the record carries the cleaned query as its answer
EncodeQueryWithAnswer(q, extracted) ==
    /\ call.op = "none"
    /\ call' = [op |-> "encode_query", query |-> q, extracted |-> extracted]
    /\ ret' = [ encode_query(q, extracted) EXCEPT !.attributes.answer = _preprocess(q) ]
    /\ UNCHANGED matcherVars

EncodeQuery(q, extracted) ==
    /\ call.op = "none"
    /\ call' = [op |-> "encode_query", query |-> q, extracted |-> extracted]
    /\ ret' = encode_query(q, extracted)
    /\ UNCHANGED matcherVars

NextNorm ==
    \/ \E text \in Texts(MaxWords), domain \in Domains, action \in Actions :
          InferCategory(text, domain, action)
    \/ \E text \in PreprocessTexts : Preprocess(text)
    \/ \E entry \in RawEntries : EntryToRecord(entry)
    \/ \E q \in Texts(MaxWords), extracted \in ExtractorOutputs : EncodeQuery(q, extracted)

SpecNorm == Init /\ [][NextNorm]_vars

(***************************************************************************)
(* entry_to_record on entries whose question is about as long as the slice *)
(* of the generated id.                                                    *)
(***************************************************************************)
NextId == \E entry \in LongEntries : EntryToRecord(entry)

SpecId == Init /\ [][NextId]_vars

(***************************************************************************)
(* The loaders: one run of FAQMatcher._load_faq or of build.load_all_jsonl *)
(* followed by entry_to_record, on an arbitrary data file.                 *)
(***************************************************************************)
LoadFaqCall(lines) ==
    /\ call.op = "none"
    /\ call' = [op |-> "_load_faq", lines |-> lines]
    /\ ret' = LoadFaq(lines, <<>>)
    /\ UNCHANGED matcherVars

LoadAllJsonlCall(lines) ==
    /\ call.op = "none"
    /\ call' = [op |-> "load_all_jsonl", lines |-> lines]
    /\ ret' = [raised |-> FALSE, records |-> ToRecords(load_all_jsonl(lines, <<>>))]
    /\ UNCHANGED matcherVars

NextLoad ==
    \/ \E lines \in LoadFiles : LoadFaqCall(lines)
    \/ \E lines \in LoadFiles : LoadAllJsonlCall(lines)

SpecLoad == Init /\ [][NextLoad]_vars

(***************************************************************************)
(* The scoring loop of match() on one query bundle and one candidate       *)
(* bundle, each of which may lack any of the scored roles.                 *)
(***************************************************************************)
ScoredRoles == { ROLE_WEIGHTS[i].role : i \in DOMAIN ROLE_WEIGHTS }

\* cosine depends on the difference of the two vectors only: the query's
\* vectors are fixed, the candidate's are equal, close or opposite to them
QueryBundles == UNION { [S -> {0}] : S \in SUBSET ScoredRoles }

EntryBundles == UNION { [S -> {0, 1, 3}] : S \in SUBSET ScoredRoles }

\* lines 99-108 for one candidate; the loop has no raise statement
ScoreCall(q_roles, e_roles) ==
    /\ call.op = "none"
    /\ call' = [op |-> "score", q_roles |-> q_roles, e_roles |-> e_roles]
    /\ ret' = [raised |-> FALSE, score |-> Score(q_roles, e_roles)]
    /\ UNCHANGED matcherVars

NextScore == \E q_roles \in QueryBundles, e_roles \in EntryBundles : ScoreCall(q_roles, e_roles)

SpecScore == Init /\ [][NextScore]_vars

(***************************************************************************)
(* The flattening of match() on one glyph of two layers of two segments,   *)
(* any of which may carry an internal name.                                *)
(***************************************************************************)
GlyphRoleMaps ==
    { [question |-> 0], [category |-> 1], [question |-> 2, category |-> 3] }

GlyphSegments ==
    [ name : { <<"t","a","g","s">>, <<"_","i","d","x">> }, roles : GlyphRoleMaps ]

GlyphLayers ==
    [ name     : { <<"c","o","n","t","e","x","t">>, <<"_","k","e","y">> },
      segments : { <<s1, s2>> : s1 \in GlyphSegments, s2 \in GlyphSegments } ]

Glyphs == { <<l1, l2>> : l1 \in GlyphLayers, l2 \in GlyphLayers }

\* lines 82-88 (query glyph) and 91-97 (FAQ glyph)
FlattenCall(glyph) ==
    /\ call.op = "none"
    /\ call' = [op |-> "flatten", glyph |-> glyph]
    /\ ret' = Flatten(glyph)
    /\ UNCHANGED matcherVars

NextFlatten == \E glyph \in Glyphs : FlattenCall(glyph)

SpecFlatten == Init /\ [][NextFlatten]_vars

(***************************************************************************)
(* The reference matcher of tests/test_similarity.py beside the ranking of *)
(* match(), on one query glyph and one corpus of candidate glyphs.         *)
(***************************************************************************)
\* the loop of _find_best_match over the candidates: a candidate replaces the
\* best one when its score is strictly greater
RECURSIVE FindBestLoop(_, _, _, _)
FindBestLoop(q_roles, candidates, best_score, best_meta) ==
    IF candidates = <<>> THEN [best_meta |-> best_meta, best_score |-> best_score]
    ELSE LET score == Score(q_roles, Flatten(Head(candidates).glyph))
         IN  IF ScoreGt(score, best_score)
             THEN FindBestLoop(q_roles, Tail(candidates), score, Some(Head(candidates).meta))
             ELSE FindBestLoop(q_roles, Tail(candidates), best_score, best_meta)

\* _find_best_match after the query is encoded: best_score, best_meta = -1.0, None
_find_best_match(q_glyph, candidates) ==
    FindBestLoop(Flatten(q_glyph), candidates, [num |-> -1, den |-> 1], None)

\* the sorted score list of match() after the query is encoded (lines 82-110)
MatchScores(q_glyph, candidates) ==
    SortScores(ScoreAll(Flatten(q_glyph), candidates), <<>>)

\* a glyph of one layer and one segment that holds the given roles
BundleGlyph(roles) ==
    << [ name |-> <<"s","e","m","a","n","t","i","c">>,
         segments |-> << [ name |-> <<"c","o","n","t","e","n","t">>, roles |-> roles ] >> ] >>

\* the query's role vectors, and candidates whose vectors are all equal to
\* them, opposite on the one role they share, or on no scored role at all
BestQueryRoles == [ question |-> 0, category |-> 0, keywords |-> 0, answer |-> 0 ]

BestCandidateRoles ==
    { [ question |-> 0, category |-> 0, keywords |-> 0, answer |-> 0 ],
      [ question |-> 3 ],
      [ question_id |-> 0 ] }

BestCandidates ==
    { [ glyph |-> BundleGlyph(roles), meta |-> [question_id |-> id] ] :
        roles \in BestCandidateRoles, id \in {W_q1, W_ok} }

\* non-empty corpora
BestCorpora == UNION { [1..k -> BestCandidates] : k \in 1..MaxCorpus }

FindBestMatchCall(candidates) ==
    /\ call.op = "none"
    /\ call' = [op |-> "_find_best_match", faq_glyphs |-> candidates]
    /\ ret' = [ best   |-> _find_best_match(BundleGlyph(BestQueryRoles), candidates),
                scores |-> MatchScores(BundleGlyph(BestQueryRoles), candidates) ]
    /\ UNCHANGED matcherVars

NextBest == \E candidates \in BestCorpora : FindBestMatchCall(candidates)

SpecBest == Init /\ [][NextBest]_vars

(***************************************************************************)
(* Properties of the scorer and of the match decision (Spec).              *)
(***************************************************************************)
Matched == phase = "matched"

Abstained(r) == r.question_id = None

\* the score list of the last match() before the sort, in corpus order
Unsorted == ScoreAll(QueryRoles(query), faq_glyphs)

SameScore(a, b) == a.num * b.den = b.num * a.den

\* C1 (as stated): every score computed in match() lies in [0.0, 1.0].
C1_ScoreInZeroOne ==
    Matched => \A i \in DOMAIN scores :
                  /\ scores[i].score.num >= 0
                  /\ scores[i].score.num <= scores[i].score.den

\* C1 (amended): every score computed in match(), a weight-normalised sum of
\* cosines, lies in [-1.0, 1.0], and so does the reported confidence.
C1_ScoreInMinusOneOne ==
    Matched =>
        /\ \A i \in DOMAIN scores :
              /\ scores[i].score.den > 0
              /\ scores[i].score.num >= - scores[i].score.den
              /\ scores[i].score.num <= scores[i].score.den
        /\ result.confidence >= - RoundScale
        /\ result.confidence <= RoundScale

\* a match is returned whose confidence is negative
C1_Witness ==
    /\ Matched
    /\ ~ Abstained(result)
    /\ result.confidence < 0
    /\ \E i \in DOMAIN scores : scores[i].score.num < 0

\* C2: question_id, category and answer are null together, and they are null
\* exactly when the returned confidence is below the threshold or the corpus
\* is empty.
C2_NullIffConfidenceBelowThreshold ==
    Matched =>
        /\ (result.question_id = None) = (result.category = None)
        /\ (result.question_id = None) = (result.answer = None)
        /\ Abstained(result) <=> (result.confidence < threshold \/ faq_glyphs = <<>>)

\* C7: for the ranked list of the last match(), a threshold at or above the
\* matcher's keeps an abstain an abstain, and a threshold at or below the
\* matcher's keeps a match a match of the same entry.
C7_ThresholdMonotone ==
    Matched =>
        \A t \in Thresholds :
            LET other == Decide(scores, t)
            IN  /\ (t >= threshold /\ Abstained(result)) => Abstained(other)
                /\ (t <= threshold /\ ~ Abstained(result)) =>
                      /\ other.question_id = result.question_id
                      /\ other.category = result.category
                      /\ other.answer = result.answer

\* an abstain that a lower threshold would have turned into a match
C7_Witness ==
    /\ Matched
    /\ Abstained(result)
    /\ \E t \in Thresholds : t < threshold /\ ~ Abstained(Decide(scores, t))

\* C8: with an empty corpus match() returns the abstain result with
\* confidence 0.0 and an empty top_3, whatever the threshold.
C8_EmptyCorpusAbstains ==
    (Matched /\ faq_glyphs = <<>>) =>
        /\ result.question_id = None
        /\ result.category = None
        /\ result.answer = None
        /\ result.confidence = 0
        /\ result.top_3 = <<>>

\* a match() on an empty corpus with a threshold that the score 0.0 reaches
C8_Witness == Matched /\ faq_glyphs = <<>> /\ threshold <= 0

\* the place of corpus entry i in the ranked list: after the entries of
\* greater score and after the earlier entries of equal score
RankOf(unsorted, i) ==
    1 + Cardinality({ j \in DOMAIN unsorted :
                        \/ ScoreGt(unsorted[j].score, unsorted[i].score)
                        \/ (j < i /\ SameScore(unsorted[j].score, unsorted[i].score)) })

\* C9: the ranked list holds every corpus entry once, in non-increasing
\* score order, entries of equal score in load order; top_3 is its first
\* min(3, N) entries, for a match and for an abstain.
C9_RankedStableTop3 ==
    Matched =>
        /\ Len(scores) = Len(faq_glyphs)
        /\ LET unsorted == Unsorted
           IN  \A i \in DOMAIN unsorted : scores[RankOf(unsorted, i)] = unsorted[i]
        /\ \A i \in 1..(Len(scores) - 1) : ScoreGeq(scores[i].score, scores[i + 1].score)
        /\ Len(result.top_3) = Min(3, Len(faq_glyphs))
        /\ \A i \in DOMAIN result.top_3 :
              /\ result.top_3[i].question_id = scores[i].meta.question_id
              /\ result.top_3[i].score = Round4(scores[i].score)

\* an abstain on a corpus of more than three entries, two of which are
\* different entries of equal score
C9_Witness ==
    /\ Matched
    /\ Abstained(result)
    /\ Len(faq_glyphs) > 3
    /\ \E i, j \in DOMAIN scores :
          /\ i < j
          /\ SameScore(scores[i].score, scores[j].score)
          /\ scores[i].meta # scores[j].meta

InferCalled == call.op = "_infer_category"

\* the signal count of a category: the number of distinct signal phrases of
\* the category that occur in the lowercased text
SignalCount(cat, text) ==
    Cardinality({ s \in Range(_CATEGORY_SIGNALS[cat]) : IsSubstring(s, Lower(text)) })

MaxSignalCount(text) ==
    CHOOSE n \in 0..20 :
        /\ \E cat \in Categories : SignalCount(cat, text) = n
        /\ \A cat \in Categories : SignalCount(cat, text) <= n

\* the first category, in enumeration order, that has the highest signal count
FirstOfHighestCount(text) ==
    CategoryOrder[CHOOSE i \in DOMAIN CategoryOrder :
        /\ SignalCount(CategoryOrder[i], text) = MaxSignalCount(text)
        /\ \A j \in 1..(i - 1) : SignalCount(CategoryOrder[j], text) < MaxSignalCount(text)]

\* C3: _infer_category never returns a category whose signal count is
\* strictly less than another category's count for the same text.
C3_NeverBelowAnotherCount ==
    InferCalled =>
        \A cat \in Categories : SignalCount(ret, call.text) >= SignalCount(cat, call.text)

\* C4: when two or more categories share the highest signal count and it is
\* not zero, _infer_category returns the one of them that comes first in the
\* enumeration order, whatever the hints.
C4_TieGoesToFirstInOrder ==
    ( /\ InferCalled
      /\ MaxSignalCount(call.text) > 0
      /\ Cardinality({ cat \in Categories :
                         SignalCount(cat, call.text) = MaxSignalCount(call.text) }) >= 2 )
    => ret = FirstOfHighestCount(call.text)

\* C5: with a signal in the text the result is the one the text gets with no
\* hints; with no signal it is the domain's category if the domain is mapped,
\* else the action's category if the action is mapped, else "general".
C5_TextThenDomainThenAction ==
    InferCalled =>
        IF \E cat \in Categories : SignalCount(cat, call.text) > 0
        THEN ret = _infer_category(call.text, "", "")
        ELSE ret = IF call.domain \in DOMAIN _DOMAIN_CATEGORY
                        THEN _DOMAIN_CATEGORY[call.domain]
                   ELSE IF call.action \in DOMAIN _ACTION_CATEGORY
                        THEN _ACTION_CATEGORY[call.action]
                   ELSE "general"

\* a text with no signal, classified by its domain hint although its action
\* hint maps to another category
C5_Witness ==
    /\ InferCalled
    /\ \A cat \in Categories : SignalCount(cat, call.text) = 0
    /\ call.domain = "payments"
    /\ call.action = "track"
    /\ ret = "billing"

\* C6: the category attribute of every record of entry_to_record and of
\* encode_query is one of the seven categories.
C6_CategoryInFixedSet ==
    call.op \in {"entry_to_record", "encode_query"} => ret.attributes.category \in Categories

(***************************************************************************)
(* Further properties of the matcher (Spec).                               *)
(***************************************************************************)
\* C11: once the matcher is constructed, no step changes the corpus or the
\* threshold, and a match() that repeats the query of the match() before it
\* returns the same ranked list and the same result.
C11_MatchLeavesCorpusAlone ==
    [][ phase # "new" =>
          /\ faq_glyphs' = faq_glyphs
          /\ threshold' = threshold
          /\ (Matched /\ query' = query) => (scores' = scores /\ result' = result) ]_vars

\* a match on a corpus of several entries that returns an entry
C11_Witness ==
    /\ Matched
    /\ Len(faq_glyphs) >= 2
    /\ ~ Abstained(result)
    /\ scores = Ranked(query, faq_glyphs)

(***************************************************************************)
(* Properties of the loaders (SpecLoad).                                   *)
(***************************************************************************)
IsWellFormedLine(line) == line.kind = "entry" /\ line.entry.question # <<>>

\* the metadata of the well-formed lines of a file, in file order
RECURSIVE WellFormedMeta(_)
WellFormedMeta(lines) ==
    IF lines = <<>> THEN <<>>
    ELSE IF IsWellFormedLine(Head(lines))
         THEN <<entry_to_record(Head(lines).entry).metadata>> \o WellFormedMeta(Tail(lines))
         ELSE WellFormedMeta(Tail(lines))

\* C12: neither loader aborts on a malformed record; a line that is not
\* valid JSON or an entry without a question contributes nothing, and every
\* well-formed line is loaded, in order.
C12_MalformedSkippedNeverFatal ==
    /\ call.op = "_load_faq" =>
          /\ ~ ret.raised
          /\ [ i \in DOMAIN ret.faq_glyphs |-> ret.faq_glyphs[i].meta ]
                = WellFormedMeta(call.lines)
    /\ call.op = "load_all_jsonl" =>
          /\ ~ ret.raised
          /\ [ i \in DOMAIN ret.records |-> ret.records[i].metadata ]
                = WellFormedMeta(call.lines)

(***************************************************************************)
(* Properties of the scoring loop (SpecScore).                             *)
(***************************************************************************)
ScoreCalled == call.op = "score"

\* the scored roles present in both bundles of the call
SharedRoles == ScoredRoles \cap DOMAIN call.q_roles \cap DOMAIN call.e_roles

SharedSim(i) ==
    IF ROLE_WEIGHTS[i].role \in SharedRoles
    THEN ROLE_WEIGHTS[i].w
           * cosine_similarity(call.q_roles[ROLE_WEIGHTS[i].role], call.e_roles[ROLE_WEIGHTS[i].role])
    ELSE 0

SharedWeight(i) == IF ROLE_WEIGHTS[i].role \in SharedRoles THEN ROLE_WEIGHTS[i].w ELSE 0

\* C13 as stated: a scored role missing from either bundle ends the scoring
\* in a fatal error.
C13_MissingRoleIsFatal ==
    (ScoreCalled /\ SharedRoles # ScoredRoles) => ret.raised

\* C13: a scored role missing from either bundle raises nothing; the score
\* is the weighted mean of the similarities of the scored roles present in
\* both bundles, and exactly 0 when no scored role is present in both.
C13_MissingRoleIsLeftOut ==
    ScoreCalled =>
        /\ ~ ret.raised
        /\ ret.score.den > 0
        /\ LET ws == SharedSim(1) + SharedSim(2) + SharedSim(3) + SharedSim(4)
               wt == SharedWeight(1) + SharedWeight(2) + SharedWeight(3) + SharedWeight(4)
           IN  IF SharedRoles = {}
               THEN ret.score.num = 0
               ELSE ret.score.num * wt * SimScale = ws * ret.score.den

\* a scoring where the query lacks one role, the candidate another, and the
\* roles they share give a score that is not zero
C13_Witness ==
    /\ ScoreCalled
    /\ "answer" \notin DOMAIN call.q_roles
    /\ "category" \notin DOMAIN call.e_roles
    /\ SharedRoles = {"question", "keywords"}
    /\ ret.score.num # 0

(***************************************************************************)
(* Properties of the record builders (SpecNorm).                           *)
(***************************************************************************)
EntryCalled == call.op = "entry_to_record"

QueryCalled == call.op = "encode_query"

\* an extractor output without a domain or an action hint
NoHints == [ domain |-> "", action |-> "", keywords |-> <<>> ]

\* C14: an entry without a category gets the classifier's result on the
\* cleaned question, which is the category the same string gets as a query
\* without hints.
C14_AutoCategoryFromCleanedQuestion ==
    (EntryCalled /\ call.entry.category = "") =>
        /\ ret.attributes.category = _infer_category(_preprocess(call.entry.question), "", "")
        /\ ret.attributes.category = encode_query(call.entry.question, NoHints).attributes.category

PreprocessCalled == call.op = "_preprocess"

IsAlnum(c) == c \in Range(LowerLetters) \cup Range(UpperLetters) \cup Range(Digits)

\* the character _preprocess puts in the place of character c
CleanChar(c) == IF IsWordChar(c) \/ IsSpaceChar(c) THEN LowerChar(c) ELSE " "

\* text lowercased, every character that is neither a word character nor
\* whitespace replaced by one space, without the whitespace at both ends
Cleaned(text) ==
    LET solid == { i \in DOMAIN text : ~ IsSpaceChar(CleanChar(text[i])) }
    IN  IF solid = {} THEN <<>>
        ELSE LET first == CHOOSE i \in solid : \A j \in solid : i <= j
                 last  == CHOOSE i \in solid : \A j \in solid : j <= i
             IN  [ k \in 1..(last - first + 1) |-> CleanChar(text[first + k - 1]) ]

\* the alphanumeric and whitespace characters of text, in order
RECURSIVE AlnumAndSpace(_)
AlnumAndSpace(text) ==
    IF text = <<>> THEN <<>>
    ELSE (IF IsAlnum(Head(text)) \/ IsSpaceChar(Head(text)) THEN <<Head(text)>> ELSE <<>>)
         \o AlnumAndSpace(Tail(text))

NoOuterSpace(text) ==
    text # <<>> => (~ IsSpaceChar(text[1]) /\ ~ IsSpaceChar(text[Len(text)]))

\* the question of the call that built the record in ret
CalledQuestion == IF EntryCalled THEN call.entry.question ELSE call.query

\* C15 as stated: the result holds only lowercase alphanumeric and
\* whitespace characters and is the input's alphanumeric and whitespace
\* characters, lowercased, in order, without the whitespace at both ends.
C15_StripsNonAlphanumeric ==
    /\ PreprocessCalled =>
          /\ \A i \in DOMAIN ret :
                ret[i] \in Range(LowerLetters) \cup Range(Digits) \/ IsSpaceChar(ret[i])
          /\ NoOuterSpace(ret)
          /\ ret = Strip(AlnumAndSpace(Lower(call.text)), {" ", "\t", "\n"})
    /\ (EntryCalled \/ QueryCalled) =>
          ret.attributes.question
            = Strip(AlnumAndSpace(Lower(CalledQuestion)), {" ", "\t", "\n"})

\* C15: _preprocess lowercases the text, puts one space in the place of
\* every character that is neither alphanumeric, underscore nor whitespace,
\* and trims the whitespace at both ends; the question attribute of both
\* record builders is this value.
C15_ReplacesPunctuationBySpace ==
    /\ PreprocessCalled =>
          /\ ret = Cleaned(call.text)
          /\ \A i \in DOMAIN ret :
                ret[i] \in Range(LowerLetters) \cup Range(Digits) \cup {"_"} \/ IsSpaceChar(ret[i])
          /\ NoOuterSpace(ret)
    /\ (EntryCalled \/ QueryCalled) => ret.attributes.question = Cleaned(CalledQuestion)

\* a text with whitespace in front, a capital, and punctuation between two
\* characters that are kept
C15_Witness ==
    /\ PreprocessCalled
    /\ call.text = <<" ", "A", "-", "_">>
    /\ ret = <<"a", " ", "_">>

\* C16: the name encode_query returns is the one it returns for the same raw
\* query whatever the extractor gives, and a second invocation on the same
\* query and extractor output returns the same name and attributes.
C16_NameFromRawQueryOnly ==
    QueryCalled =>
        /\ ret.name = encode_query(call.query, NoHints).name
        /\ ret = encode_query(call.query, call.extracted)

\* a query that cleaning changes, with a domain, an action and keywords
\* from the extractor
C16_Witness ==
    /\ QueryCalled
    /\ call.query # _preprocess(call.query)
    /\ call.extracted.domain # ""
    /\ call.extracted.action # ""
    /\ call.extracted.keywords # <<>>
    /\ ret.name # encode_query(_preprocess(call.query), call.extracted).name

\* C17: the record encode_query returns has the empty string as its
\* question_id and as its answer.
C17_QueryHasNoIdNoAnswer ==
    QueryCalled =>
        /\ ret.attributes.question_id = <<>>
        /\ ret.attributes.answer = <<>>

\* a query with text, for which the extractor gives keywords
C17_Witness ==
    /\ QueryCalled
    /\ ret.attributes.question # <<>>
    /\ call.extracted.keywords # <<>>
    /\ ret.attributes.keywords = call.extracted.keywords

(***************************************************************************)
(* Properties of the generated id (SpecId).                                *)
(***************************************************************************)
FaqPrefix == <<"f","a","q","_">>

\* the slug of a question, position by position: a letter or a digit of the
\* lowercased question stands for itself, the first character of a run of
\* other characters stands for one "_" unless the run is at the start or at
\* the end of the question, and the first SlugLen of these are kept
SlugByPosition(question) ==
    LET n        == Len(question)
        IsSep(i) == ~ IsSlugChar(LowerChar(question[i]))
        InEndRun(i) == \A j \in i..n : IsSep(j)
        InStartRun(i) == \A j \in 1..i : IsSep(j)
        emits    == { i \in 1..n :
                        \/ ~ IsSep(i)
                        \/ /\ i > 1
                           /\ ~ IsSep(i - 1)
                           /\ ~ InEndRun(i)
                           /\ ~ InStartRun(i) }
        rank(i)  == Cardinality({ j \in emits : j <= i })
        at(k)    == CHOOSE i \in emits : rank(i) = k
    IN  [ k \in 1..Min(SlugLen, Cardinality(emits)) |->
            IF IsSep(at(k)) THEN "_" ELSE LowerChar(question[at(k)]) ]

\* C18 as stated: the generated id is "faq_" and the slug of the first 40
\* characters of the cleaned question; a supplied id is kept.
C18_SlugOfFirst40Cleaned ==
    EntryCalled =>
        ret.attributes.question_id
          = IF call.entry.question_id # <<>> THEN call.entry.question_id
            ELSE LET cleaned == _preprocess(call.entry.question)
                 IN  FaqPrefix
                       \o SubRuns(SubSeq(cleaned, 1, Min(SlugLen, Len(cleaned))), FALSE)

\* C18: the generated id is "faq_" and the first 40 characters of the slug
\* of the whole lowercased question (runs of characters other than letters
\* and digits collapsed to "_", none at either end before the cut); a
\* supplied id is kept.
C18_First40OfSlug ==
    EntryCalled =>
        /\ ret.attributes.question_id
             = IF call.entry.question_id # <<>> THEN call.entry.question_id
               ELSE FaqPrefix \o SlugByPosition(call.entry.question)
        /\ ret.metadata.question_id = ret.attributes.question_id

\* a question of more than 40 characters with a run of two separators, whose
\* generated id has the full 40 characters after the prefix
C18_Witness ==
    /\ EntryCalled
    /\ call.entry.question_id = <<>>
    /\ Len(call.entry.question) > SlugLen
    /\ SubSeq(call.entry.question, 1, 3) = <<"A", "-", "-">>
    /\ Len(ret.attributes.question_id) = Len(FaqPrefix) + SlugLen
    /\ ret.attributes.question_id[Len(FaqPrefix) + SlugLen] = "z"

(***************************************************************************)
(* Properties of the loaded corpus and of the flattening (Spec).           *)
(***************************************************************************)
\* C19: the ids of the loaded corpus entries are pairwise distinct: two
\* loaded entries that differ never have the same question_id.
C19_LoadedIdsDistinct ==
    \A i, j \in DOMAIN faq_glyphs :
        faq_glyphs[i] # faq_glyphs[j] =>
            faq_glyphs[i].meta.question_id # faq_glyphs[j].meta.question_id

(***************************************************************************)
(* Properties of the flattening (SpecFlatten).                             *)
(***************************************************************************)
FlattenCalled == call.op = "flatten"

IsInternal(name) == name # <<>> /\ Head(name) = "_"

\* the <<layer, segment>> positions of glyph that give role r to the
\* flattened map: those in a non-internal layer and, when skipSegments, in a
\* non-internal segment
RoleSources(glyph, r, skipSegments) ==
    UNION { { <<l, s>> : s \in { t \in DOMAIN glyph[l].segments :
                                    /\ r \in DOMAIN glyph[l].segments[t].roles
                                    /\ ~ IsInternal(glyph[l].name)
                                    /\ skipSegments => ~ IsInternal(glyph[l].segments[t].name) } } :
            l \in DOMAIN glyph }

LastSource(sources) ==
    CHOOSE p \in sources :
        \A q \in sources : q[1] < p[1] \/ (q[1] = p[1] /\ q[2] <= p[2])

\* the role map made of the last source of every role
MergedRoles(glyph, skipSegments) ==
    [ r \in { x \in {"question", "category"} : RoleSources(glyph, x, skipSegments) # {} } |->
        LET p == LastSource(RoleSources(glyph, r, skipSegments))
        IN  glyph[p[1]].segments[p[2]].roles[r] ]

\* C20 as stated: the flattened map holds exactly the roles of the
\* non-internal segments of the non-internal layers, the last one winning.
C20_NoInternalLayerNoInternalSegment ==
    FlattenCalled =>
        /\ DOMAIN ret = DOMAIN MergedRoles(call.glyph, TRUE)
        /\ \A r \in DOMAIN ret : ret[r] = MergedRoles(call.glyph, TRUE)[r]

\* C20: the flattened map holds no role that comes from an internal layer
\* only; it holds exactly the roles of all the segments, internal ones
\* included, of the non-internal layers, the last one winning.
C20_NoInternalLayer ==
    FlattenCalled =>
        /\ DOMAIN ret = DOMAIN MergedRoles(call.glyph, FALSE)
        /\ \A r \in DOMAIN ret : ret[r] = MergedRoles(call.glyph, FALSE)[r]

\* an internal layer whose roles are left out, then a layer whose internal
\* segment overwrites the role of the segment before it
C20_Witness ==
    /\ FlattenCalled
    /\ IsInternal(call.glyph[1].name)
    /\ "category" \in DOMAIN call.glyph[1].segments[1].roles
    /\ ~ IsInternal(call.glyph[2].name)
    /\ ~ IsInternal(call.glyph[2].segments[1].name)
    /\ IsInternal(call.glyph[2].segments[2].name)
    /\ call.glyph[2].segments[1].roles = [question |-> 0]
    /\ call.glyph[2].segments[2].roles = [question |-> 2, category |-> 3]
    /\ DOMAIN ret = {"question", "category"}
    /\ ret["question"] = 2

(***************************************************************************)
(* Properties of the reference matcher (SpecBest).                         *)
(***************************************************************************)
FindBestCalled == call.op = "_find_best_match"

\* C21: on a non-empty corpus the (metadata, score) pair _find_best_match
\* returns is the first element of the score list match() sorts.
C21_ReferenceAgreesWithTopRanked ==
    FindBestCalled =>
        /\ ret.best.best_meta = Some(ret.scores[1].meta)
        /\ ret.best.best_score.num * ret.scores[1].score.den
             = ret.scores[1].score.num * ret.best.best_score.den

====
